---- MODULE Spec2Model ----
(***************************************************************************)
(* A model of @bengennaria/logger (src/index.js): the per-require module   *)
(* instances, the process-wide registry of configurations, the message     *)
(* formatter (LoggerMessage) and the asynchronous logfile writer.          *)
(*                                                                         *)
(* Representation of JavaScript values.  A string is the sequence of its   *)
(* lines (the text split at os.EOL), so "a" is <<"a">> and EOL + "b" is    *)
(* <<"", "b">>.  A value is a record [k, s]: k is its type tag and s the   *)
(* lines of String(value); for an array s holds its items.  A file path is *)
(* the sequence of its segments.  The non-ASCII ellipsis of the namespace  *)
(* format is written "..." and a run of spaces of the indentation width is *)
(* written Pad.                                                            *)
(***************************************************************************)
EXTENDS Integers, Sequences, FiniteSets, TLC

(***************************************************************************)
(* Bounds                                                                  *)
(***************************************************************************)
MaxInstances == 2      \* module instances loaded by require()
MaxWrites == 2         \* logfile writes requested over the process lifetime
MaxCalls == 4          \* calls the application makes (require included)

(***************************************************************************)
(* The filesystem the process runs in: package manifests and the files     *)
(* that require the logger.                                                *)
(***************************************************************************)
toplevelModuleDirectory == <<"app">>
toplevelModulePackageName == "my-app"
thisModuleFilename == <<"app", "node_modules", "logger", "index.js">>
thisModulePackageName == "logger"

Manifests ==
    (<<"app">> :> toplevelModulePackageName)
    @@ (<<"app", "node_modules", "dep">> :> "dep")
    @@ (<<"app", "node_modules", "logger">> :> thisModulePackageName)

CallerFiles ==
    { <<"app", "src", "main.js">>,
      <<"app", "src", "util.js">>,
      <<"app", "node_modules", "dep", "index.js">>,
      <<"app", "node_modules", "dep", "util.js">> }

NoParent == <<>>

\* path.basename / path.dirname
basename(p) == p[Len(p)]
dirname(p) == SubSeq(p, 1, Len(p) - 1)

\* readPkgUp.sync({ cwd }): the nearest enclosing directory with a manifest
RECURSIVE readPkgUp(_)
readPkgUp(p) ==
    IF p \in DOMAIN Manifests THEN p
    ELSE IF p = <<>> THEN <<>>
    ELSE readPkgUp(dirname(p))

logfilePath == "/logs/my-app/my-app.log"
customLogfile == "/tmp/custom.log"

(***************************************************************************)
(* Configurations and option sets                                          *)
(***************************************************************************)
defaultLoggerOptions ==
    [write |-> FALSE, timestamp |-> TRUE, namespace |-> "", logfile |-> logfilePath]

OptionKeys == {"write", "timestamp", "namespace", "logfile"}

FullOptions ==
    [write : BOOLEAN, timestamp : BOOLEAN, namespace : {"custom"},
     logfile : {customLogfile}]

\* the option objects callers pass: every subset of the recognized keys
OptionSets ==
    { [k \in D |-> f[k]] : f \in FullOptions, D \in SUBSET OptionKeys }

\* _.defaultsDeep(object, source) on flat objects: object keeps every key it
\* has, source fills the keys object lacks; the result is object itself
defaultsDeepSourceWins(object, source) ==
    [k \in (DOMAIN object) \cup (DOMAIN source) |->
        IF k \in DOMAIN source THEN source[k] ELSE object[k]]

defaultsDeep(object, source) ==
    [k \in (DOMAIN object) \cup (DOMAIN source) |->
        IF k \in DOMAIN object THEN object[k] ELSE source[k]]

\* line 401: options merged onto the defaults
mergeDefaultsWin(options) == defaultsDeep(defaultLoggerOptions, options)

mergeDefaults(options) == defaultsDeep(options, defaultLoggerOptions)

(***************************************************************************)
(* Namespace resolution (lines 412-445)                                    *)
(***************************************************************************)
\* line 412
requiringModuleFilePath(parent) ==
    IF parent # NoParent THEN parent ELSE thisModuleFilename

requiringModuleDirectory(path) == readPkgUp(path)
requiringModuleName(path) == Manifests[readPkgUp(path)]

\* lines 424-431
isLocalModule(path) == requiringModuleDirectory(path) = toplevelModuleDirectory

namespaceAlwaysPackage(path) ==
    toplevelModulePackageName \o "|" \o requiringModuleName(path)

\* lines 440-445
namespaceOf(path) ==
    IF isLocalModule(path)
    THEN toplevelModulePackageName \o "|.../" \o basename(path)
    ELSE toplevelModulePackageName \o "|" \o requiringModuleName(path)


(***************************************************************************)
(* JavaScript values and strings                                           *)
(***************************************************************************)
Str(lines) == [k |-> "str", s |-> lines]
EmptyString == Str(<<"">>)

\* string concatenation on line sequences
Cat(a, b) ==
    SubSeq(a, 1, Len(a) - 1) \o <<a[Len(a)] \o b[1]>> \o Tail(b)

\* String(v), as a template literal or util.format's %s converts v
String(v) == v.s

\* the conversion Array.prototype.join applies to an element
JoinString(v) == IF v.k = "null" THEN <<"">> ELSE v.s

\* !v
Falsy(v) ==
    \/ v.k = "null"
    \/ v.k = "str" /\ v.s = <<"">>
    \/ v.k = "num" /\ v.s = <<"0">>
    \/ v.k = "bool" /\ v.s = <<"false">>

\* _.isObjectLike, _.isArray
isObjectLike(v) == v.k \in {"obj", "arr"}
isArray(v) == v.k = "arr"

\* message.join(' ')
RECURSIVE join(_)
join(message) ==
    IF message = <<>> THEN <<"">>
    ELSE IF Len(message) = 1 THEN JoinString(message[1])
    ELSE Cat(Cat(JoinString(message[1]), <<" ">>), join(Tail(message)))

Pad == "<indent>"
Pad2 == "<indent+2>"

\* line 257: an array, one item per line between brackets
RECURSIVE joinItems(_)
joinItems(items) ==
    IF items = <<>> THEN <<Pad2>>
    ELSE IF Len(items) = 1 THEN <<Pad2 \o items[1]>>
    ELSE <<Pad2 \o items[1] \o ",">> \o joinItems(Tail(items))

\* lines 255-263: the string an object-like value is replaced by
serialize(v) ==
    IF isArray(v)
    THEN Str(<<"", Pad \o "[">> \o joinItems(v.s) \o <<Pad \o "]">>)
    ELSE Str(<<"">> \o [i \in 1..Len(v.s) |-> Pad \o v.s[i]])

\* lines 252-268: the loop over the arguments, in index order; serializing
\* argument i also turns argument i-1 into a string
RECURSIVE massage(_, _)
massage(message, i) ==
    IF i > Len(message) THEN message
    ELSE IF isObjectLike(message[i])
    THEN LET m1 == [message EXCEPT ![i] = serialize(message[i])]
             m2 == IF i > 1
                   THEN [m1 EXCEPT ![i - 1] = Str(String(m1[i - 1]))]
                   ELSE m1
         IN massage(m2, i + 1)
    ELSE massage(message, i + 1)

\* lines 270-283: title and body of the record
titleAndBody(message) ==
    LET hasTitle == Len(message) > 1
        rest == IF hasTitle THEN Tail(message) ELSE message
        body == Str(join(rest))
        title == IF hasTitle /\ ~Falsy(message[1]) THEN message[1] ELSE body
    IN [title |-> title, body |-> IF title = body THEN EmptyString ELSE body]

\* _.toUpper(loglevel)
toUpper(loglevel) ==
    CASE loglevel = "debug" -> "DEBUG"
      [] loglevel = "log" -> "LOG"
      [] loglevel = "info" -> "INFO"
      [] loglevel = "warn" -> "WARN"
      [] loglevel = "error" -> "ERROR"

colorDictionary ==
    [debug |-> "cyan", log |-> "cyan", info |-> "magenta", warn |-> "yellow",
     error |-> "red"]

Loglevels == DOMAIN colorDictionary

\* line 95 and _.startCase(contextType)
contextType == "browser"
startCaseContextType == "Browser"

(***************************************************************************)
(* State                                                                   *)
(***************************************************************************)
VARIABLES
    isNolog,          \* line 24: the no-log override, read from the environment
    isDebug,          \* line 23: the debug-mode flag
    requireCache,     \* require.cache[__filename]: 0 or the cached instance
    instances,        \* the module instances: module.parent, configuration
    globalDefined,    \* global[thisModulePackageName] exists
    configurations,   \* global[thisModulePackageName].configurations (a Map)
    pending,          \* logfile writes in flight
    writes,           \* number of logfile writes requested so far
    files,            \* the contents of the logfiles
    diagnostics,      \* console.error calls made by the writer
    uncaughtException,\* an error left the logger unhandled
    lastRecord,       \* the LoggerMessage the last log call rendered
    calls,            \* number of calls the application has made
    everyCreateWrites \* history: every createLogger call so far had write true

vars == <<isNolog, isDebug, requireCache, instances, globalDefined,
          configurations, pending, writes, files, diagnostics, uncaughtException,
          lastRecord, calls, everyCreateWrites>>

Logfiles == {logfilePath, customLogfile}
NoRecord == <<>>

Init ==
    /\ isNolog \in BOOLEAN
    /\ isDebug \in BOOLEAN
    /\ requireCache = 0
    /\ instances = <<>>
    /\ globalDefined = FALSE
    /\ configurations = <<>>
    /\ pending = <<>>
    /\ writes = 0
    /\ files = [f \in Logfiles |-> <<>>]
    /\ diagnostics = 0
    /\ uncaughtException = FALSE
    /\ lastRecord = NoRecord
    /\ calls = 0
    /\ everyCreateWrites = TRUE

(***************************************************************************)
(* The logfile writer (lines 141-192)                                      *)
(***************************************************************************)
Cfg(m) == instances[m].configuration[1]

\* line 141: moment().format('YYYY-DD-MM HH:mm:ss')
getCurrentTimestamp == "YYYY-DD-MM HH:mm:ss"

shouldWriteIgnoringNolog(configuration) == configuration.write

\* line 163: the test that lets a message through to the logfile
shouldWrite(configuration) == configuration.write /\ ~isNolog

\* lines 155-166: the state writeMessageToFile leaves behind: nothing when
\* the test fails, else one more fs.mkdirp in flight
writeMessageToFile(configuration, message) ==
    IF shouldWrite(configuration)
    THEN /\ pending' = Append(pending,
                [logfile |-> configuration.logfile, lines |-> message,
                 stage |-> "mkdirp"])
         /\ writes' = writes + 1
    ELSE UNCHANGED <<pending, writes>>

\* guard that keeps the number of requested writes bounded
WriteAllowed(configuration) == shouldWrite(configuration) => writes < MaxWrites

\* line 191: EOL, the LOG STARTED line, EOL, the rule
headerMessage ==
    <<"", "LOG STARTED (" \o getCurrentTimestamp \o ")", "<rule>">>

RemoveAt(seq, i) == SubSeq(seq, 1, i - 1) \o SubSeq(seq, i + 1, Len(seq))

\* lines 166-170: the callback of fs.mkdirp
MkdirpCallback(i, error) ==
    /\ ~uncaughtException
    /\ i \in DOMAIN pending
    /\ pending[i].stage = "mkdirp"
    /\ IF error
       THEN /\ diagnostics' = diagnostics + 1
            /\ pending' = RemoveAt(pending, i)
       ELSE \* lines 173-182: the stream is created, every line is queued on
            \* it with its timestamp prefix, and the stream is ended
            /\ pending' = [pending EXCEPT ![i] =
                    [logfile |-> pending[i].logfile,
                     lines |-> [n \in 1..Len(pending[i].lines) |->
                         "[" \o getCurrentTimestamp \o "] " \o pending[i].lines[n]],
                     stage |-> "open"]]
            /\ UNCHANGED diagnostics
    /\ UNCHANGED <<isNolog, isDebug, requireCache, instances, globalDefined,
                   configurations, writes, files, uncaughtException, lastRecord,
                   calls, everyCreateWrites>>

\* fs.createWriteStream(logfile, { flags: 'a' }) opens the file after the
\* callback returned; the stream has no 'error' listener (lines 173-182), so
\* a failure to open is an unhandled 'error' event
StreamOpen(i, error) ==
    /\ ~uncaughtException
    /\ i \in DOMAIN pending
    /\ pending[i].stage = "open"
    /\ IF error
       THEN /\ uncaughtException' = TRUE
            /\ pending' = RemoveAt(pending, i)
       ELSE /\ pending' = [pending EXCEPT ![i].stage = "write"]
            /\ UNCHANGED uncaughtException
    /\ UNCHANGED <<isNolog, isDebug, requireCache, instances, globalDefined,
                   configurations, writes, files, diagnostics, lastRecord, calls,
                   everyCreateWrites>>

\* the opened stream flushes the lines queued on it, in order, and closes
\* (taken as one step: no property here depends on how the lines of two
\* streams interleave); a failed write is an unhandled 'error' event as well
StreamWrite(i, error) ==
    /\ ~uncaughtException
    /\ i \in DOMAIN pending
    /\ pending[i].stage = "write"
    /\ pending' = RemoveAt(pending, i)
    /\ IF error
       THEN /\ uncaughtException' = TRUE
            /\ UNCHANGED files
       ELSE /\ files' = [files EXCEPT ![pending[i].logfile] = @ \o pending[i].lines]
            /\ UNCHANGED uncaughtException
    /\ UNCHANGED <<isNolog, isDebug, requireCache, instances, globalDefined,
                   configurations, writes, diagnostics, lastRecord, calls,
                   everyCreateWrites>>

(***************************************************************************)
(* require() and the exported function (lines 399-482)                     *)
(***************************************************************************)
\* require('@bengennaria/logger') by file parent while the module is not in
\* require.cache: the module is evaluated anew, with module.parent the
\* requiring file.  (While it is cached, require returns the cached instance
\* and changes nothing.)
Require(parent) ==
    /\ ~uncaughtException
    /\ requireCache = 0
    /\ Len(instances) < MaxInstances
    /\ calls < MaxCalls
    /\ calls' = calls + 1
    /\ instances' = Append(instances,
            [parent |-> parent, configuration |-> <<>>])
    /\ requireCache' = Len(instances) + 1
    /\ UNCHANGED <<isNolog, isDebug, globalDefined, configurations, pending,
                   writes, files, diagnostics, uncaughtException, lastRecord,
                   everyCreateWrites>>

\* Map.prototype.set: a known key keeps its position, a new key goes last
MapSet(map, key, value) ==
    IF \E i \in DOMAIN map : map[i].key = key
    THEN [i \in DOMAIN map |->
            IF map[i].key = key THEN [key |-> key, configuration |-> value]
            ELSE map[i]]
    ELSE Append(map, [key |-> key, configuration |-> value])

\* lines 401-445: the configuration createLogger builds
newConfiguration(parent, options) ==
    [mergeDefaults(options) EXCEPT
        !.namespace = namespaceOf(requiringModuleFilePath(parent))]

\* lines 399-482: the exported function, called on instance m
CreateLogger(m, options) ==
    LET path == requiringModuleFilePath(instances[m].parent)
        configuration == newConfiguration(instances[m].parent, options)
    IN /\ ~uncaughtException
       /\ m \in DOMAIN instances
       /\ calls < MaxCalls
       /\ calls' = calls + 1
       \* lines 414-415 throw when no manifest encloses the requiring file
       /\ readPkgUp(path) # <<>>
       \* line 449
       /\ instances' = [instances EXCEPT ![m].configuration = <<configuration>>]
       \* lines 452-457
       /\ globalDefined' = TRUE
       \* lines 460-462: the size is read before this call's entry is set
       /\ IF Len(configurations) = 1
          THEN /\ WriteAllowed(configuration)
               /\ writeMessageToFile(configuration, headerMessage)
          ELSE UNCHANGED <<pending, writes>>
       \* line 465
       /\ configurations' = MapSet(configurations, path, configuration)
       \* line 469
       /\ requireCache' = 0
       /\ everyCreateWrites' = (everyCreateWrites /\ configuration.write)
       /\ UNCHANGED <<isNolog, isDebug, files, diagnostics, uncaughtException,
                      lastRecord>>

\* line 376: the options object, filled from the current configuration,
\* becomes module.exports.configuration; the registry is not touched
SetConfiguration(m, options) ==
    /\ ~uncaughtException
    /\ m \in DOMAIN instances
    /\ instances[m].configuration # <<>>
    /\ calls < MaxCalls
    /\ calls' = calls + 1
    /\ instances' = [instances EXCEPT
            ![m].configuration = <<defaultsDeep(options, Cfg(m))>>]
    /\ UNCHANGED <<isNolog, isDebug, requireCache, globalDefined,
                   configurations, pending, writes, files, diagnostics,
                   uncaughtException, lastRecord, everyCreateWrites>>

(***************************************************************************)
(* LoggerMessage and the log methods (lines 210-391)                       *)
(***************************************************************************)
\* lines 238-239
namespacesList ==
    [i \in DOMAIN configurations |-> configurations[i].configuration.namespace]

\* Array.prototype.indexOf: the first 0-based index, -1 when absent
indexOf(list, x) ==
    IF \E i \in DOMAIN list : list[i] = x
    THEN (CHOOSE i \in DOMAIN list :
            list[i] = x /\ \A j \in 1..(i - 1) : list[j] # x) - 1
    ELSE -1

\* n & 1 in two's complement
and1(n) == n % 2

\* lines 216-295.  The elapsed time of lines 288-292 is kept only as present
\* or absent: the clock value, and with it initialTimestamp, is not modelled.
LoggerMessage(m, loglevel, message) ==
    LET configuration == Cfg(m)
        tb == titleAndBody(massage(message, 1))
    IN [loglevel |-> toUpper(loglevel),
        color |-> colorDictionary[loglevel],
        namespace |-> configuration.namespace,
        thread |-> and1(indexOf(namespacesList, configuration.namespace)),
        title |-> tb.title,
        body |-> tb.body,
        timestamp |-> IF configuration.timestamp THEN "<elapsed> ms" ELSE ""]

\* lines 324-327, 350-353: util.format('[%s] [%s] [%s] %s %s', ...)
fileMessage(record) ==
    Cat(Cat(Cat(<<"[" \o record.loglevel \o "] [" \o startCaseContextType
                  \o "] [" \o record.namespace \o "] ">>,
                String(record.title)), <<" ">>), String(record.body))

\* lines 384-388 with printToAny (lines 304-354): one log method called on
\* the logger of instance m
Log(m, loglevel, message) ==
    /\ ~uncaughtException
    /\ m \in DOMAIN instances
    /\ instances[m].configuration # <<>>
    /\ calls < MaxCalls
    /\ calls' = calls + 1
    /\ IF (loglevel = "debug" /\ ~isDebug) \/ Len(message) = 0
       THEN UNCHANGED <<pending, writes, lastRecord>>
       ELSE LET record == LoggerMessage(m, loglevel, message)
            IN /\ lastRecord' = <<record>>
               /\ WriteAllowed(Cfg(m))
               /\ writeMessageToFile(Cfg(m), fileMessage(record))
    /\ UNCHANGED <<isNolog, isDebug, requireCache, instances, globalDefined,
                   configurations, files, diagnostics, uncaughtException,
                   everyCreateWrites>>

(***************************************************************************)
(* Inputs                                                                  *)
(***************************************************************************)
Hello == Str(<<"hello">>)
Saving == Str(<<"Saving">>)
Zero == [k |-> "num", s |-> <<"0">>]
False == [k |-> "bool", s |-> <<"false">>]
Null == [k |-> "null", s |-> <<"null">>]
StatusOk == [k |-> "obj", s |-> <<"{ status: 'ok' }">>]
List12 == [k |-> "arr", s |-> <<"1", "2">>]

Values == {Hello, Saving, EmptyString, Zero, False, Null, StatusOk, List12}

\* every argument list of at most two values
AllMessages ==
    {<<>>} \cup {<<v>> : v \in Values} \cup {<<v, w>> : v \in Values, w \in Values}

\* the inputs of the process model
Options == {<<>>, [write |-> TRUE], [write |-> FALSE], [namespace |-> "custom"]}
Messages == {<<>>, <<Hello>>, <<Saving, StatusOk>>}
Levels == {"debug", "error"}

Next ==
    \/ \E parent \in CallerFiles \cup {NoParent} : Require(parent)
    \/ \E m \in 1..MaxInstances, options \in Options : CreateLogger(m, options)
    \/ \E m \in 1..MaxInstances, options \in Options : SetConfiguration(m, options)
    \/ \E m \in 1..MaxInstances, loglevel \in Levels, message \in Messages :
            Log(m, loglevel, message)
    \/ \E i \in 1..MaxWrites, error \in BOOLEAN : MkdirpCallback(i, error)
    \/ \E i \in 1..MaxWrites, error \in BOOLEAN : StreamOpen(i, error)
    \/ \E i \in 1..MaxWrites, error \in BOOLEAN : StreamWrite(i, error)

Spec == Init /\ [][Next]_vars

\* the configuration calls alone, over every option set
ConfigParents == {<<"app", "src", "main.js">>, <<"app", "node_modules", "dep", "index.js">>}

NextConfig ==
    \/ \E parent \in ConfigParents : Require(parent)
    \/ \E m \in 1..MaxInstances, options \in OptionSets : CreateLogger(m, options)
    \/ \E m \in 1..MaxInstances, options \in OptionSets : SetConfiguration(m, options)

SpecConfig == Init /\ [][NextConfig]_vars

\* the formatter alone, over every level and every argument list
NextFormat ==
    \/ Require(<<"app", "src", "main.js">>)
    \/ \E m \in 1..MaxInstances : CreateLogger(m, <<>>)
    \/ \E m \in 1..MaxInstances, loglevel \in Loglevels, message \in AllMessages :
            Log(m, loglevel, message)

SpecFormat == Init /\ [][NextFormat]_vars

(***************************************************************************)
(* Properties                                                              *)
(***************************************************************************)
Path(m) == requiringModuleFilePath(instances[m].parent)

\* the step is createLogger(options) called on instance m
IsCreateLogger(m, options) ==
    /\ requireCache' = 0
    /\ \A n \in DOMAIN instances \ {m} : instances'[n] = instances[n]
    /\ CreateLogger(m, options)

\* the step is setConfiguration(options) called on the logger of instance m
IsSetConfiguration(m, options) ==
    /\ configurations' = configurations
    /\ \A n \in DOMAIN instances \ {m} : instances'[n] = instances[n]
    /\ SetConfiguration(m, options)

HeaderJob(logfile) ==
    [logfile |-> logfile, lines |-> headerMessage, stage |-> "mkdirp"]

HeaderLine == "[YYYY-DD-MM HH:mm:ss] LOG STARTED (YYYY-DD-MM HH:mm:ss)"

HeaderLinesIn(f) == Cardinality({i \in DOMAIN files[f] : files[f][i] = HeaderLine})

HeaderBlocksWritten == HeaderLinesIn(logfilePath) + HeaderLinesIn(customLogfile)

\* C1: the very first createLogger call of the process (the registry does
\* not exist yet), made with write true while the no-log override is
\* inactive, requests exactly one header block, ahead of any message line.
C1_FirstCreateWritesHeader ==
    [][\A m \in DOMAIN instances, options \in Options :
        (/\ IsCreateLogger(m, options)
         /\ ~globalDefined
         /\ "write" \in DOMAIN options /\ options.write
         /\ ~isNolog)
        => /\ pending' = <<HeaderJob(instances'[m].configuration[1].logfile)>>
           /\ \A f \in Logfiles : files[f] = <<>>]_vars

\* C2: when every createLogger call had write true and the no-log override
\* is inactive, the logfiles hold at most one header block.
C2_HeaderAtMostOnce ==
    (everyCreateWrites /\ ~isNolog) => HeaderBlocksWritten <= 1

\* C3: a createLogger call or a log call made while the caller's
\* configuration has write false, or while the no-log override is active,
\* requests no logfile write and appends nothing to any logfile.
C3_NoWriteWhenDisabled ==
    [][/\ \A m \in DOMAIN instances, loglevel \in Levels, message \in Messages :
            (Log(m, loglevel, message) /\ (~Cfg(m).write \/ isNolog))
            => (pending' = pending /\ files' = files)
       /\ \A m \in DOMAIN instances, options \in Options :
            (/\ IsCreateLogger(m, options)
             /\ (~instances'[m].configuration[1].write \/ isNolog))
            => (pending' = pending /\ files' = files)]_vars

\* a logger with write false has logged and no write was ever requested
C3_Witness ==
    /\ lastRecord # NoRecord
    /\ writes = 0 /\ pending = <<>> /\ \A f \in Logfiles : files[f] = <<>>
    /\ ~isNolog
    /\ \E m \in DOMAIN instances :
          /\ instances[m].configuration # <<>>
          /\ ~Cfg(m).write
          /\ Cfg(m).namespace = lastRecord[1].namespace

Supplied(options, k) ==
    IF k \in DOMAIN options THEN options[k] ELSE defaultLoggerOptions[k]

\* C4 as stated: after createLogger(options) each of write, timestamp,
\* namespace and logfile has the supplied value, or the default when none
\* is supplied.
C4_OptionsWinOverDefaults ==
    [][\A m \in DOMAIN instances, options \in OptionSets :
        IsCreateLogger(m, options)
        => \A k \in OptionKeys :
              instances'[m].configuration[1][k] = Supplied(options, k)]_vars

\* the namespace of each requiring file, from the two formats of the
\* namespace resolver
ExpectedNamespace ==
    (<<"app", "src", "main.js">> :> "my-app|.../main.js")
    @@ (<<"app", "src", "util.js">> :> "my-app|.../util.js")
    @@ (<<"app", "node_modules", "dep", "index.js">> :> "my-app|dep")
    @@ (<<"app", "node_modules", "dep", "util.js">> :> "my-app|dep")
    @@ (thisModuleFilename :> "my-app|logger")

\* C4 amended: after createLogger(options) each of write, timestamp and
\* logfile has the supplied value, or the default when none is supplied;
\* namespace is the namespace derived from the requiring file, whatever
\* options supplies.
C4_OptionsWinExceptNamespace ==
    [][\A m \in DOMAIN instances, options \in OptionSets :
        IsCreateLogger(m, options)
        => /\ DOMAIN instances'[m].configuration[1] = OptionKeys
           /\ \A k \in OptionKeys \ {"namespace"} :
                 instances'[m].configuration[1][k] = Supplied(options, k)
           /\ instances'[m].configuration[1].namespace
                 = ExpectedNamespace[Path(m)]]_vars

\* a registered configuration (createLogger alone registers) with supplied
\* write, timestamp and logfile values
C4_Witness ==
    \E i \in DOMAIN configurations :
        /\ configurations[i].configuration.write
        /\ ~configurations[i].configuration.timestamp
        /\ configurations[i].configuration.logfile = customLogfile
        /\ configurations[i].configuration.namespace
              = ExpectedNamespace[configurations[i].key]

\* C5: setConfiguration(P) on a logger holding C leaves it holding P's
\* value for every field P supplies and C's value for every other field.
C5_SetConfigurationMerges ==
    [][\A m \in DOMAIN instances, options \in OptionSets :
        IsSetConfiguration(m, options)
        => /\ DOMAIN instances'[m].configuration[1] = OptionKeys
           /\ \A k \in OptionKeys :
                 instances'[m].configuration[1][k]
                   = IF k \in DOMAIN options THEN options[k] ELSE Cfg(m)[k]]_vars

\* a logger holds a namespace only setConfiguration can give it, next to a
\* field kept from the configuration it held before
C5_Witness ==
    \E m \in DOMAIN instances :
        /\ instances[m].configuration # <<>>
        /\ Cfg(m).namespace = "custom"
        /\ Cfg(m).logfile = customLogfile
        /\ Cfg(m).write

\* C6: the thread parity of a rendered record is the index of the record's
\* namespace in the list of registered namespaces, in registration order,
\* modulo 2.
C6_ThreadParityIsIndexParity ==
    lastRecord # NoRecord
    => \E i \in DOMAIN configurations :
          /\ configurations[i].configuration.namespace = lastRecord[1].namespace
          /\ \A j \in 1..(i - 1) :
                configurations[j].configuration.namespace # lastRecord[1].namespace
          /\ lastRecord[1].thread = (i - 1) % 2

\* title and body as the claim gives them for a non-empty argument list,
\* compared as rendered text
TitleBodyAsClaimed(record, message) ==
    LET arguments == massage(message, 1)
        rest == join(Tail(arguments))
    IN IF Len(message) > 1
       THEN /\ String(record.title) = String(arguments[1])
            /\ record.body.s = IF String(arguments[1]) = rest THEN <<"">> ELSE rest
       ELSE /\ String(record.title) = join(arguments)
            /\ record.body.s = <<"">>

\* C7: a log call with more than one argument renders the first argument
\* as title and the remaining serialized arguments, joined with single
\* spaces, as body; with exactly one argument the title is that argument
\* and the body is empty; a body identical to the title is empty.
C7_TitleIsFirstArgument ==
    [][\A m \in DOMAIN instances, loglevel \in Loglevels, message \in AllMessages :
        (Log(m, loglevel, message) /\ lastRecord' # lastRecord)
        => TitleBodyAsClaimed(lastRecord'[1], message)]_vars

\* C8: a failure of fs.mkdirp, of opening the logfile or of writing to it
\* is reported with console.error, appends nothing, and leaves no error
\* unhandled.
C8_WriteFailuresAreNonFatal ==
    [][\A i \in 1..MaxWrites :
        (MkdirpCallback(i, TRUE) \/ StreamOpen(i, TRUE) \/ StreamWrite(i, TRUE))
        => /\ diagnostics' = diagnostics + 1
           /\ files' = files
           /\ ~uncaughtException']_vars

\* C9 as stated: two registered callers with distinct file paths have
\* different namespaces whenever their classification differs or their
\* file base names differ.
C9_NamespacesDiffer ==
    \A i, j \in DOMAIN configurations :
        (/\ configurations[i].key # configurations[j].key
         /\ \/ isLocalModule(configurations[i].key) # isLocalModule(configurations[j].key)
            \/ basename(configurations[i].key) # basename(configurations[j].key))
        => configurations[i].configuration.namespace
             # configurations[j].configuration.namespace

\* C9 amended: two registered callers with distinct file paths have
\* different namespaces whenever their classification differs, or both are
\* local and their file base names differ.
C9_NamespacesDifferForLocalFiles ==
    \A i, j \in DOMAIN configurations :
        (/\ configurations[i].key # configurations[j].key
         /\ \/ isLocalModule(configurations[i].key) # isLocalModule(configurations[j].key)
            \/ /\ isLocalModule(configurations[i].key)
               /\ isLocalModule(configurations[j].key)
               /\ basename(configurations[i].key) # basename(configurations[j].key))
        => configurations[i].configuration.namespace
             # configurations[j].configuration.namespace

\* two local files with different base names are registered
C9_Witness ==
    \E i, j \in DOMAIN configurations :
        /\ isLocalModule(configurations[i].key)
        /\ isLocalModule(configurations[j].key)
        /\ basename(configurations[i].key) # basename(configurations[j].key)

\* C10: the configuration registered under a logger's requiring file is
\* the configuration the logger's getConfiguration() returns.
C10_RegistryHoldsCurrentConfiguration ==
    \A m \in DOMAIN instances :
        instances[m].configuration # <<>>
        => \E i \in DOMAIN configurations :
              /\ configurations[i].key = Path(m)
              /\ configurations[i].configuration = Cfg(m)

====
